---- MODULE Spec2Model ----
(***************************************************************************)
(* FastUI / SQLModel user demo (final/main.py, final/db.py).               *)
(*                                                                         *)
(* The persisted state is the single table User(id, name, dob) of the     *)
(* file-backed SQLite store; it survives process restarts.  Each handler  *)
(* opens one session, performs one read or one write with a commit, and   *)
(* returns a view description.  A request is dispatched by the router to  *)
(* the first registered route that matches its method and path.           *)
(*                                                                         *)
(* A path is the text after the leading "/" split on "/": "/api/user/5/"  *)
(* is <<"api", "user", "5", "">> and "/" is <<"">>.                        *)
(***************************************************************************)
EXTENDS Integers, Sequences, FiniteSets, TLC

\* Largest primary key the model lets the store assign.
MaxId == 5

VARIABLES
    store,      \* rows of table User in db.sqlite3
    running,    \* the application has completed startup and serves requests
    req,        \* history: the last request ([method, path, body])
    handler,    \* history: the endpoint that handled the last operation
    resp,       \* history: the response of the last operation
    prev,       \* history: the store before the last operation
    deleted,    \* history: id of the row the operation before the last one deleted, else 0
    stage       \* history: progress along the seed / add Amy / delete 5 scenario

vars == <<store, running, req, handler, resp, prev, deleted, stage>>

----------------------------------------------------------------------------
\* Values

date(y, m, d) == <<y, m, d>>

User(id, name, dob) == [id |-> id, name |-> name, dob |-> dob]

None == [none |-> TRUE]

Names == {"Amy"}

Dobs == {date(1994, 1, 1)}

Ids(s) == {r.id : r \in s}

\* session.get(User, id): the row with that primary key, or None.
Get(s, id) == IF id \in Ids(s) THEN CHOOSE r \in s : r.id = id ELSE None

\* Mutant: the id is taken from the number of rows instead of the largest id.
NextId_count(s) == Cardinality(s) + 1

\* The rowid SQLite gives a row inserted without an id: one more than the
\* largest id in the table, 1 for an empty table.
NextId(s) == IF s = {} THEN 1 ELSE (CHOOSE m \in Ids(s) : \A i \in Ids(s) : i <= m) + 1

\* int -> text as an f-string formats it; text -> int as the path parameter
\* `user_id: int` is validated (NotInt: the request is rejected with 422).
NotInt == -1

Str(n) == ToString(n)

ParseInt(seg) ==
    IF \E n \in 0..(MaxId + 1) : Str(n) = seg
    THEN CHOOSE n \in 0..(MaxId + 1) : Str(n) = seg
    ELSE NotInt

----------------------------------------------------------------------------
\* The store, as one session sees it (db.py: User, engine; sqlmodel Session)

IsNone(x) == "none" \in DOMAIN x

\* with Session(engine) as session: the rows the session works on, and
\* whether a statement of it has failed.
Session(s) == [rows |-> s, error |-> FALSE]

\* session.add(user), flushed: id is the primary key of the table, so a row
\* whose id is already present is refused (IntegrityError).
add(session, user) ==
    IF session.error \/ user.id \in Ids(session.rows)
    THEN [rows |-> session.rows, error |-> TRUE]
    ELSE [rows |-> session.rows \cup {user}, error |-> FALSE]

\* session.delete(user)
delete(session, user) == [rows |-> session.rows \ {user}, error |-> session.error]

\* session.commit(): the session's rows become the store; a failed session
\* leaves the store as it was.
commit(s, session) == IF session.error THEN s ELSE session.rows

----------------------------------------------------------------------------
\* Responses

GoToEvent(url) == [type |-> "go-to", url |-> url]

FormResponse(event) == [status |-> 200, kind |-> "form_response", event |-> event]

HTTPException(status_code, detail) ==
    [status |-> status_code, kind |-> "error", detail |-> detail]

HTMLResponse(title) == [status |-> 200, kind |-> "html", title |-> title]

----------------------------------------------------------------------------
\* Startup (main.py: lifespan)

users ==
    << User(1, "John", date(1990, 1, 1)),
       User(2, "Jack", date(1991, 1, 1)),
       User(3, "Jill", date(1992, 1, 1)),
       User(4, "Jane", date(1993, 1, 1)) >>

\* for user in users[i..]: skip the user whose id is present, add the others.
RECURSIVE seed_loop(_, _)
seed_loop(session, i) ==
    IF i > Len(users) THEN session
    ELSE IF ~IsNone(Get(session.rows, users[i].id))
         THEN seed_loop(session, i + 1)
         ELSE seed_loop(add(session, users[i]), i + 1)

\* Mutant: every seed user is added without the lookup that skips present ids.
RECURSIVE seed_loop_unchecked(_, _)
seed_loop_unchecked(session, i) ==
    IF i > Len(users) THEN session
    ELSE seed_loop_unchecked(add(session, users[i]), i + 1)

lifespan_unchecked(s) ==
    LET session == seed_loop_unchecked(Session(s), 1)
    IN  [store |-> commit(s, session), ok |-> ~session.error]

\* Mutant: every seed user is merged into the store, replacing a present row.
lifespan_merge(s) ==
    [store |-> {r \in s : \A i \in 1..Len(users) : users[i].id # r.id}
               \cup {users[i] : i \in 1..Len(users)},
     ok |-> TRUE]

\* The store after startup, and whether startup completed (an exception in
\* the lifespan keeps the application from starting).
lifespan(s) ==
    LET session == seed_loop(Session(s), 1)
    IN  [store |-> commit(s, session), ok |-> ~session.error]

----------------------------------------------------------------------------
\* Handlers: the store after the request, and the response

\* GET /api/user/add/
add_user_page(s) ==
    [store |-> s,
     resp  |-> [status |-> 200, kind |-> "page", heading |-> "Add User",
                submit_url |-> <<"api", "user", "add", "">>]]

\* Mutant: the new user is added to the session and never committed.
add_user_uncommitted(s, form) ==
    [store |-> s, resp |-> FormResponse(GoToEvent(<<"">>))]

\* POST /api/user/add/
add_user(s, form) ==
    LET user    == User(NextId(s), form.name, form.dob)
        session == add(Session(s), user)
    IN  IF session.error
        THEN [store |-> s, resp |-> HTTPException(500, "Internal Server Error")]
        ELSE [store |-> commit(s, session),
              resp  |-> FormResponse(GoToEvent(<<"">>))]

\* GET /api/ : every row, in the order the store returns them.
users_table(s) ==
    [store |-> s,
     resp  |-> [status |-> 200, kind |-> "page", heading |-> "Users",
                data |-> s, add_url |-> <<"user", "add", "">>]]

\* Mutant: no check for a missing row; building the page from None fails.
user_profile_unchecked(s, user_id) ==
    LET user == Get(s, user_id)
    IN  IF IsNone(user)
        THEN [store |-> s, resp |-> HTTPException(500, "Internal Server Error")]
        ELSE [store |-> s,
              resp  |-> [status |-> 200, kind |-> "page", heading |-> user.name,
                         data |-> user,
                         submit_url |-> <<"api", "user", Str(user_id), "delete", "">>]]

\* Mutant: the heading is a fixed text instead of the user's name.
user_profile_fixed_heading(s, user_id) ==
    LET user == Get(s, user_id)
    IN  IF IsNone(user)
        THEN [store |-> s, resp |-> HTTPException(404, "User not found")]
        ELSE [store |-> s,
              resp  |-> [status |-> 200, kind |-> "page", heading |-> "User",
                         data |-> user,
                         submit_url |-> <<"api", "user", Str(user_id), "delete", "">>]]

\* GET /api/user/{user_id}/
user_profile(s, user_id) ==
    LET user == Get(s, user_id)
    IN  IF IsNone(user)
        THEN [store |-> s, resp |-> HTTPException(404, "User not found")]
        ELSE [store |-> s,
              resp  |-> [status |-> 200, kind |-> "page", heading |-> user.name,
                         data |-> user,
                         submit_url |-> <<"api", "user", Str(user_id), "delete", "">>]]

\* Mutant: the row is deleted in the session and never committed.
delete_user_uncommitted(s, user_id, form) ==
    [store |-> s, resp |-> FormResponse(GoToEvent(<<"">>))]

\* Mutant: a missing row is reported as not found, as user_profile does.
delete_user_not_found(s, user_id, form) ==
    LET user == Get(s, user_id)
    IN  IF ~IsNone(user)
        THEN [store |-> commit(s, delete(Session(s), user)),
              resp  |-> FormResponse(GoToEvent(<<"">>))]
        ELSE [store |-> s, resp |-> HTTPException(404, "User not found")]

\* Mutant: the row is deleted only when the form confirms.
delete_user_confirmed(s, user_id, form) ==
    LET user == Get(s, user_id)
    IN  IF ~IsNone(user) /\ form.confirm
        THEN [store |-> commit(s, delete(Session(s), user)),
              resp  |-> FormResponse(GoToEvent(<<"">>))]
        ELSE [store |-> s, resp |-> FormResponse(GoToEvent(<<"">>))]

\* POST /api/user/{user_id}/delete/
delete_user(s, user_id, form) ==
    LET user == Get(s, user_id)
    IN  IF ~IsNone(user)
        THEN [store |-> commit(s, delete(Session(s), user)),
              resp  |-> FormResponse(GoToEvent(<<"">>))]
        ELSE [store |-> s, resp |-> FormResponse(GoToEvent(<<"">>))]

\* GET /{path:path}
html_landing(s) == [store |-> s, resp |-> HTMLResponse("FastUI Demo")]

----------------------------------------------------------------------------
\* Routing (main.py: the @app.get / @app.post decorators, in the order in
\* which they register their routes)

\* Mutant: the parameterized detail route is registered before the add form.
routes_profile_first ==
    << [methods |-> {"GET"},  path |-> <<"api", "user", "{user_id}", "">>,
        endpoint |-> "user_profile"],
       [methods |-> {"GET"},  path |-> <<"api", "user", "add", "">>,
        endpoint |-> "add_user_page"],
       [methods |-> {"POST"}, path |-> <<"api", "user", "add", "">>,
        endpoint |-> "add_user"],
       [methods |-> {"GET"},  path |-> <<"api", "">>,
        endpoint |-> "users_table"],
       [methods |-> {"POST"}, path |-> <<"api", "user", "{user_id}", "delete", "">>,
        endpoint |-> "delete_user"],
       [methods |-> {"GET"},  path |-> <<"{path:path}">>,
        endpoint |-> "html_landing"] >>

routes ==
    << [methods |-> {"GET"},  path |-> <<"api", "user", "add", "">>,
        endpoint |-> "add_user_page"],
       [methods |-> {"POST"}, path |-> <<"api", "user", "add", "">>,
        endpoint |-> "add_user"],
       [methods |-> {"GET"},  path |-> <<"api", "">>,
        endpoint |-> "users_table"],
       [methods |-> {"GET"},  path |-> <<"api", "user", "{user_id}", "">>,
        endpoint |-> "user_profile"],
       [methods |-> {"POST"}, path |-> <<"api", "user", "{user_id}", "delete", "">>,
        endpoint |-> "delete_user"],
       [methods |-> {"GET"},  path |-> <<"{path:path}">>,
        endpoint |-> "html_landing"] >>

\* A route's path matches a request path when they agree segment by segment;
\* {user_id} stands for one non-empty segment and {path:path} for any rest.
path_matches(pattern, path) ==
    IF pattern = <<"{path:path}">> THEN TRUE
    ELSE /\ Len(pattern) = Len(path)
         /\ \A i \in 1..Len(pattern) :
                IF pattern[i] = "{user_id}" THEN path[i] # "" ELSE pattern[i] = path[i]

\* The routes that match the request in full, and those whose path matches
\* but whose methods do not.
full_matches(method, path) ==
    {i \in 1..Len(routes) : path_matches(routes[i].path, path) /\ method \in routes[i].methods}

partial_matches(method, path) ==
    {i \in 1..Len(routes) : path_matches(routes[i].path, path) /\ method \notin routes[i].methods}

first(S) == CHOOSE i \in S : \A j \in S : i <= j

\* The router walks the routes in registration order and hands the request
\* to the first full match; failing that, a route whose path alone matches
\* answers 405; failing that, 404.
dispatch(method, path) ==
    IF full_matches(method, path) # {} THEN routes[first(full_matches(method, path))].endpoint
    ELSE IF partial_matches(method, path) # {} THEN "method_not_allowed"
    ELSE "not_found"

\* The value of the path parameter user_id.
user_id_of(path) == ParseInt(path[3])

\* fastui_form(UserForm) / fastui_form(DeleteUserForm): the body has the
\* model's required fields.
UserForm(body) == {"name", "dob"} \subseteq DOMAIN body

DeleteUserForm(body) == "confirm" \in DOMAIN body

\* Whether the endpoint's parameters validate for the request.
valid_params(endpoint, path, body) ==
    CASE endpoint = "add_user"     -> UserForm(body)
      [] endpoint = "user_profile" -> user_id_of(path) # NotInt
      [] endpoint = "delete_user"  -> user_id_of(path) # NotInt /\ DeleteUserForm(body)
      [] OTHER                     -> TRUE

----------------------------------------------------------------------------
\* Requests the model submits

IdSegs == {Str(n) : n \in 0..MaxId}

UserPaths == {<<"api", "user", s, "">> : s \in IdSegs \cup {"x"}}

DeletePaths == {<<"api", "user", s, "delete", "">> : s \in IdSegs \cup {"x"}}

GetPaths ==
    {<<"">>, <<"api", "">>, <<"api", "user", "add", "">>, <<"api", "user", "add">>,
     <<"user", "1", "">>, <<"api", "user", "1", "delete", "">>}
    \cup UserPaths

NoBody == <<>>

Requests ==
    {[method |-> "GET", path |-> p, body |-> NoBody] : p \in GetPaths}
    \cup {[method |-> "POST", path |-> <<"api", "user", "add", "">>, body |-> b] :
            b \in [name : Names, dob : Dobs] \cup {[name |-> "Amy"]}}
    \cup {[method |-> "POST", path |-> p, body |-> b] :
            p \in DeletePaths, b \in [confirm : BOOLEAN]}
    \cup {[method |-> "POST", path |-> p, body |-> NoBody] :
            p \in {<<"api", "">>, <<"api", "user", "1", "">>, <<"api", "user", "1", "delete", "">>}}

\* The request is handed to endpoint e with parameters that validate.
Handles(e, r) ==
    /\ dispatch(r.method, r.path) = e
    /\ valid_params(e, r.path, r.body)

----------------------------------------------------------------------------
\* History

NoRequest == [method |-> "", path |-> <<>>, body |-> NoBody]

NoResponse == [status |-> 0, kind |-> "none"]

\* The id the last operation was asked to delete and found present, else 0.
JustDeleted ==
    IF handler = "delete_user" /\ user_id_of(req.path) \in Ids(prev)
    THEN user_id_of(req.path) ELSE 0

Record(e, r, out) ==
    /\ store' = out.store
    /\ resp' = out.resp
    /\ handler' = e
    /\ req' = r
    /\ prev' = store
    /\ deleted' = JustDeleted
    /\ UNCHANGED running

Amy == [name |-> "Amy", dob |-> date(1994, 1, 1)]

----------------------------------------------------------------------------
\* Operations

Init ==
    /\ store = {}
    /\ running = FALSE
    /\ req = NoRequest
    /\ handler = "none"
    /\ resp = NoResponse
    /\ prev = {}
    /\ deleted = 0
    /\ stage = "fresh"

\* The process starts: lifespan seeds the store, then requests are served.
Lifespan ==
    /\ ~running
    /\ LET out == lifespan(store)
       IN  /\ store' = out.store
           /\ running' = out.ok
           /\ resp' = [status |-> 0, kind |-> IF out.ok THEN "started" ELSE "startup_failed"]
    /\ handler' = "lifespan"
    /\ req' = NoRequest
    /\ prev' = store
    /\ deleted' = JustDeleted
    /\ stage' = IF stage = "fresh" THEN "seeded" ELSE "off"

\* The process stops; the store file stays.
Shutdown ==
    /\ running
    /\ running' = FALSE
    /\ handler' = "shutdown"
    /\ req' = NoRequest
    /\ resp' = NoResponse
    /\ prev' = store
    /\ deleted' = JustDeleted
    /\ stage' = "off"
    /\ UNCHANGED store

AddUserPage ==
    /\ running
    /\ \E r \in Requests :
        /\ Handles("add_user_page", r)
        /\ Record("add_user_page", r, add_user_page(store))
    /\ stage' = "off"

AddUser ==
    /\ running
    /\ NextId(store) <= MaxId
    /\ \E r \in Requests :
        /\ Handles("add_user", r)
        /\ Record("add_user", r, add_user(store, r.body))
        /\ stage' = IF stage = "seeded" /\ r.body = Amy THEN "added" ELSE "off"

UsersTable ==
    /\ running
    /\ \E r \in Requests :
        /\ Handles("users_table", r)
        /\ Record("users_table", r, users_table(store))
    /\ UNCHANGED stage

UserProfile ==
    /\ running
    /\ \E r \in Requests :
        /\ Handles("user_profile", r)
        /\ Record("user_profile", r, user_profile(store, user_id_of(r.path)))
    /\ stage' = "off"

DeleteUser ==
    /\ running
    /\ \E r \in Requests :
        /\ Handles("delete_user", r)
        /\ Record("delete_user", r, delete_user(store, user_id_of(r.path), r.body))
        /\ stage' = IF stage = "added" /\ user_id_of(r.path) = 5 /\ r.body.confirm
                    THEN "deleted" ELSE "off"

HtmlLanding ==
    /\ running
    /\ \E r \in Requests :
        /\ Handles("html_landing", r)
        /\ Record("html_landing", r, html_landing(store))
    /\ stage' = "off"

\* A path parameter or a form that does not validate: 422, no handler runs.
RequestValidationError ==
    /\ running
    /\ \E r \in Requests :
        /\ dispatch(r.method, r.path) \notin {"method_not_allowed", "not_found"}
        /\ ~valid_params(dispatch(r.method, r.path), r.path, r.body)
        /\ Record("validation_error", r,
                  [store |-> store, resp |-> HTTPException(422, "Unprocessable Entity")])
    /\ stage' = "off"

\* No route takes the request's method on a path that matches: 405.
MethodNotAllowed ==
    /\ running
    /\ \E r \in Requests :
        /\ dispatch(r.method, r.path) = "method_not_allowed"
        /\ Record("method_not_allowed", r,
                  [store |-> store, resp |-> HTTPException(405, "Method Not Allowed")])
    /\ stage' = "off"

Next ==
    \/ Lifespan
    \/ Shutdown
    \/ AddUserPage
    \/ AddUser
    \/ UsersTable
    \/ UserProfile
    \/ DeleteUser
    \/ HtmlLanding
    \/ RequestValidationError
    \/ MethodNotAllowed

Spec == Init /\ [][Next]_vars

----------------------------------------------------------------------------
\* Properties

\* The id a detail or delete request names.
Target == user_id_of(req.path)

Root == <<"">>

\* C1: an add-user submission with a valid form, from any reachable store,
\* raises the number of rows by exactly one; every row present before is
\* still there; the new row carries the submitted name and dob under an id
\* that was not present before, and a lookup by that id returns it.
C1_AddUserAddsOneRow ==
    handler = "add_user" =>
        /\ Cardinality(store) = Cardinality(prev) + 1
        /\ prev \subseteq store
        /\ \E r \in store \ prev :
            /\ r.id \notin Ids(prev)
            /\ r.name = req.body.name
            /\ r.dob = req.body.dob
            /\ \A q \in store : q.id = r.id => q = r
            /\ user_profile(store, r.id).resp.status = 200
            /\ user_profile(store, r.id).resp.data = r

\* An add into a store with holes: the new row takes id 3 although the store
\* never held ids in sequence.
C1_Witness ==
    /\ handler = "add_user"
    /\ Cardinality(prev) = 2
    /\ \E r \in store \ prev : r.id = 3 /\ r.name = "Amy"

\* C2: startup seeding is idempotent.  Every startup completes; it inserts
\* a row only under a seed id that had no row, keeps every row that was
\* there, leaves exactly one row per seed id 1..4, and a further startup on
\* the store it leaves changes nothing.
C2_SeedingIdempotent ==
    handler = "lifespan" =>
        /\ resp.kind = "started"
        /\ prev \subseteq store
        /\ \A r \in store \ prev : r.id \in 1..4 /\ r.id \notin Ids(prev)
        /\ \A i \in 1..4 : Cardinality({r \in store : r.id = i}) = 1
        /\ lifespan(store).ok
        /\ lifespan(store).store = store

\* A startup that found every seed id present (a second run) and left a
\* store of more than the four seed rows as it was.
C2_Witness ==
    /\ handler = "lifespan"
    /\ prev = store
    /\ Cardinality(store) = 5
    /\ running

\* C3: once a delete submission has removed a present id, the row is gone
\* and the detail request for that id that follows it answers 404.
C3_DeletedThenNotFound ==
    /\ JustDeleted # 0 =>
        /\ JustDeleted \notin Ids(store)
        /\ user_profile(store, JustDeleted).resp.status = 404
    /\ (handler = "user_profile" /\ deleted # 0 /\ Target = deleted) =>
        resp.status = 404

\* A detail request for id 2 right after the delete submission that removed
\* row 2.
C3_Witness ==
    /\ handler = "user_profile"
    /\ deleted = 2
    /\ Target = 2
    /\ resp.status = 404

\* C4: a delete submission for an id that is not present answers with the
\* navigation event to the list view and leaves the rows as they were.
C4_DeleteAbsentIsNoOp ==
    (handler = "delete_user" /\ Target \notin Ids(prev)) =>
        /\ store = prev
        /\ resp.status = 200
        /\ resp.kind = "form_response"
        /\ resp.event = [type |-> "go-to", url |-> Root]

\* A delete submission for the absent id 2 on a store that holds other rows.
C4_Witness ==
    /\ handler = "delete_user"
    /\ Target = 2
    /\ 2 \notin Ids(prev)
    /\ Cardinality(prev) >= 3

\* C5: a detail request for an id that is not present answers 404 with no
\* page, and leaves the store unchanged.
C5_DetailAbsentIs404 ==
    /\ (handler = "user_profile" /\ Target \notin Ids(prev)) =>
        /\ resp.status = 404
        /\ resp.kind = "error"
        /\ store = prev
    /\ \A id \in 0..(MaxId + 1) :
        id \notin Ids(store) =>
            /\ user_profile(store, id).resp.status = 404
            /\ user_profile(store, id).resp.kind # "page"
            /\ user_profile(store, id).store = store

\* A detail request for the absent id 3 on a store that holds other rows.
C5_Witness ==
    /\ handler = "user_profile"
    /\ Target = 3
    /\ 3 \notin Ids(prev)
    /\ prev # {}
    /\ resp.status = 404

\* C6: a detail request for a present id answers with a page whose heading
\* is the name stored under that id, and whose delete form is submitted to
\* the delete route of that same id.
C6_DetailShowsStoredName ==
    (handler = "user_profile" /\ Target \in Ids(store)) =>
        /\ resp.status = 200
        /\ resp.kind = "page"
        /\ \E r \in store : r.id = Target /\ resp.heading = r.name
        /\ dispatch("POST", resp.submit_url) = "delete_user"
        /\ user_id_of(resp.submit_url) = Target

\* The detail page of id 1 after the seed row John was deleted and id 1 was
\* given to a new user Amy.
C6_Witness ==
    /\ handler = "user_profile"
    /\ Target = 1
    /\ resp.kind = "page"
    /\ resp.heading = "Amy"

\* The four seed rows, and the row the scenario adds.
FourUsers ==
    {[id |-> 1, name |-> "John", dob |-> <<1990, 1, 1>>],
     [id |-> 2, name |-> "Jack", dob |-> <<1991, 1, 1>>],
     [id |-> 3, name |-> "Jill", dob |-> <<1992, 1, 1>>],
     [id |-> 4, name |-> "Jane", dob |-> <<1993, 1, 1>>]}

AmyRow == [id |-> 5, name |-> "Amy", dob |-> <<1994, 1, 1>>]

Listed(rows) == handler = "users_table" => resp.kind = "page" /\ resp.data = rows

\* C7: on an empty store, startup leaves exactly John, Jack, Jill and Jane
\* under ids 1..4 and the list shows them; adding Amy/1994-01-01 then gives
\* her id 5 and the list shows five users; POST /api/user/5/delete/ with
\* confirm = true then leaves the original four, and the list shows them.
C7_Scenario ==
    /\ stage = "seeded"  => store = FourUsers /\ Listed(FourUsers)
    /\ stage = "added"   => store = FourUsers \cup {AmyRow} /\ Listed(FourUsers \cup {AmyRow})
    /\ stage = "deleted" => store = FourUsers /\ Listed(FourUsers)

\* The list requested at the end of the scenario.
C7_Witness ==
    /\ stage = "deleted"
    /\ handler = "users_table"
    /\ Cardinality(resp.data) = 4

\* C8: the delete submission does not read the confirmation flag: with
\* confirm = true and with confirm = false it leaves the same store and
\* gives the same response, for every store and every id.
C8_ConfirmIgnored ==
    /\ \A id \in 0..(MaxId + 1) :
        delete_user(store, id, [confirm |-> TRUE]) = delete_user(store, id, [confirm |-> FALSE])
    /\ handler = "delete_user" =>
        [store |-> store, resp |-> resp]
            = delete_user(prev, Target, [confirm |-> ~req.body.confirm])

\* A delete submission with confirm = false that removed a present row.
C8_Witness ==
    /\ handler = "delete_user"
    /\ req.body.confirm = FALSE
    /\ Target \in Ids(prev)
    /\ Target \notin Ids(store)

\* C9: no operation changes a row in place: an id present before and after
\* an operation has the same name and dob before and after.
C9_NoUpdateInPlace ==
    \A r \in prev : \A q \in store : q.id = r.id => q = r

\* A startup that inserted seed rows while id 1 held a non-seed row, which
\* it left as it was.
C9_Witness ==
    /\ handler = "lifespan"
    /\ store # prev
    /\ \E r \in prev : r.id = 1 /\ r.name = "Amy" /\ r \in store

====
